---- MODULE Spec2Model ----
(***************************************************************************)
(* Model of app.py, the Streamlit article humanizer: the session's         *)
(* chat_history, the two input affordances (article text area with the     *)
(* "Polish Article" button, and the chat input), the prompt built by       *)
(* humanize_via_groq and the blocking llm.invoke call, which either        *)
(* returns a response or raises.                                           *)
(*                                                                         *)
(* Text is a sequence of characters, each character its Unicode code point. *)
(***************************************************************************)
EXTENDS Integers, Sequences, FiniteSets, TLC

VARIABLES
    chat_history,   \* st.session_state.chat_history
    model_choice,   \* value of the model selectbox
    original_text,  \* value of the article text area
    pc,             \* position of the script: idle, or blocked in llm.invoke
    outcome,        \* what the last script run showed to the user
    text,           \* humanize_via_groq argument text
    instructions,   \* humanize_via_groq argument instructions
    full_prompt,    \* user payload handed to llm.invoke
    response,       \* value returned by llm.invoke
    polished,       \* value returned by humanize_via_groq
    invocations,    \* number of llm.invoke calls made so far
    turn_base       \* chat_history as it was when the current turn began

vars == <<chat_history, model_choice, original_text, pc, outcome, text,
          instructions, full_prompt, response, polished, invocations,
          turn_base>>

----------------------------------------------------------------------------
(* Bounds *)

MaxCalls == 4
MaxLen == 2

----------------------------------------------------------------------------
(* Text *)

(* The characters str.strip() removes: U+0009..000D, U+001C..0020, U+0085, *)
(* U+00A0, U+1680, U+2000..200A, U+2028, U+2029, U+202F, U+205F, U+3000.   *)
Whitespace ==
    (9..13) \cup (28..32) \cup {133, 160, 5760} \cup (8192..8202)
        \cup {8232, 8233, 8239, 8287, 12288}

(* tab, newline, space, no-break space, "a", "b" *)
Chars == {9, 10, 32, 160, 97, 98}

RECURSIVE lstrip(_)
lstrip(s) ==
    IF s = <<>> THEN s
    ELSE IF Head(s) \in Whitespace THEN lstrip(Tail(s)) ELSE s

RECURSIVE rstrip(_)
rstrip(s) ==
    IF s = <<>> THEN s
    ELSE IF s[Len(s)] \in Whitespace THEN rstrip(SubSeq(s, 1, Len(s) - 1))
    ELSE s

strip(s) == rstrip(lstrip(s))

Strings(n) == UNION {[1..k -> Chars] : k \in 0..n}

----------------------------------------------------------------------------
(* Configuration *)

MODEL_CHOICES ==
    <<"llama-3.3-70b-versatile", "llama-3.1-8b-instant", "mixtral-8x7b-32768">>

DefaultModelIndex == 2

----------------------------------------------------------------------------
(* humanize_via_groq: the prompt *)

(* "Your job is to act as a **professional humanizer and Grammarly-like    *)
(* editor**. Always fix grammar, spelling, and awkward phrasing. Make the  *)
(* text smooth, natural, and engaging while keeping the meaning unchanged. *)
(* Do not add new facts.\n\n"                                              *)
base_prompt ==
    << 89, 111, 117, 114, 32, 106, 111, 98, 32, 105, 115, 32, 116, 111, 32, 97,
       99, 116, 32, 97, 115, 32, 97, 32, 42, 42, 112, 114, 111, 102, 101, 115,
       115, 105, 111, 110, 97, 108, 32, 104, 117, 109, 97, 110, 105, 122, 101, 114,
       32, 97, 110, 100, 32, 71, 114, 97, 109, 109, 97, 114, 108, 121, 45, 108,
       105, 107, 101, 32, 101, 100, 105, 116, 111, 114, 42, 42, 46, 32, 65, 108,
       119, 97, 121, 115, 32, 102, 105, 120, 32, 103, 114, 97, 109, 109, 97, 114,
       44, 32, 115, 112, 101, 108, 108, 105, 110, 103, 44, 32, 97, 110, 100, 32,
       97, 119, 107, 119, 97, 114, 100, 32, 112, 104, 114, 97, 115, 105, 110, 103,
       46, 32, 77, 97, 107, 101, 32, 116, 104, 101, 32, 116, 101, 120, 116, 32,
       115, 109, 111, 111, 116, 104, 44, 32, 110, 97, 116, 117, 114, 97, 108, 44,
       32, 97, 110, 100, 32, 101, 110, 103, 97, 103, 105, 110, 103, 32, 119, 104,
       105, 108, 101, 32, 107, 101, 101, 112, 105, 110, 103, 32, 116, 104, 101, 32,
       109, 101, 97, 110, 105, 110, 103, 32, 117, 110, 99, 104, 97, 110, 103, 101,
       100, 46, 32, 68, 111, 32, 110, 111, 116, 32, 97, 100, 100, 32, 110, 101,
       119, 32, 102, 97, 99, 116, 115, 46, 10, 10 >>

(* U+26A1 followed by " Extra instructions: " *)
ExtraLabel ==
    << 9889, 32, 69, 120, 116, 114, 97, 32, 105, 110, 115, 116, 114, 117, 99, 116,
       105, 111, 110, 115, 58, 32 >>

ExtraInstructions(i) == ExtraLabel \o strip(i) \o <<10, 10>>

FullPromptNoStrip(t, i) ==
    (IF i # <<>> THEN base_prompt \o ExtraLabel \o i \o <<10, 10>>
     ELSE base_prompt) \o t

FullPrompt(t, i) ==
    (IF strip(i) # <<>> THEN base_prompt \o ExtraInstructions(i)
     ELSE base_prompt) \o t

(* humanize_via_groq: the value returned for a response of llm.invoke *)
ResponseText(r) == IF r.has_content THEN r.content ELSE r.repr

----------------------------------------------------------------------------
(* Messages of chat_history *)

UserMessage(c) == [role |-> "user", content |-> c]
AssistantMessage(c) == [role |-> "assistant", content |-> c]

AppendExchangeSwapped(h, u, a) ==
    Append(Append(h, AssistantMessage(a)), UserMessage(u))

AppendExchange(h, u, a) ==
    Append(Append(h, UserMessage(u)), AssistantMessage(a))

AppendFollowUpReset(h, f) == <<UserMessage(f)>>

AppendFollowUp(h, f) == Append(h, UserMessage(f))

AppendPolishedNone(h, p) == h

AppendPolishedTwice(h, p) ==
    Append(Append(h, AssistantMessage(p)), AssistantMessage(p))

AppendPolished(h, p) == Append(h, AssistantMessage(p))

last_ai_texts(h) ==
    LET sel == SelectSeq(h, LAMBDA m : m.role = "assistant")
    IN  [k \in 1..Len(sel) |-> sel[k].content]

latest_text_first(h, f) ==
    IF last_ai_texts(h) # <<>> THEN last_ai_texts(h)[1] ELSE f

latest_text(h, f) ==
    IF last_ai_texts(h) # <<>>
    THEN last_ai_texts(h)[Len(last_ai_texts(h))]
    ELSE f

----------------------------------------------------------------------------
(* Inputs *)

(* "", " \t\n", " a" *)
Articles == { <<>>, <<32, 9, 10>>, <<32, 97>> }

(* "\t", "s " *)
FollowUps == { <<9>>, <<115, 32>> }

Responses ==
    { [has_content |-> TRUE,  content |-> <<112>>, repr |-> <<120>>],
      [has_content |-> TRUE,  content |-> <<113>>, repr |-> <<121>>],
      [has_content |-> FALSE, content |-> <<>>,    repr |-> <<114>>] }

NoResponse == [has_content |-> FALSE, content |-> <<>>, repr |-> <<>>]

----------------------------------------------------------------------------
(* The session *)

Init ==
    /\ chat_history = <<>>
    /\ model_choice = MODEL_CHOICES[DefaultModelIndex]
    /\ original_text = <<>>
    /\ pc = "idle"
    /\ outcome = "none"
    /\ text = <<>>
    /\ instructions = <<>>
    /\ full_prompt = <<>>
    /\ response = NoResponse
    /\ polished = <<>>
    /\ invocations = 0
    /\ turn_base = <<>>

(* The selectbox is changed; the script reruns with no button pressed. *)
SelectModel(m) ==
    /\ pc = "idle"
    /\ m # model_choice
    /\ model_choice' = m
    /\ outcome' = "none"
    /\ UNCHANGED <<chat_history, original_text, pc, text, instructions,
                   full_prompt, response, polished, invocations, turn_base>>

(* The text area, shown only while chat_history is empty, is edited. *)
TypeArticle(a) ==
    /\ pc = "idle"
    /\ chat_history = <<>>
    /\ a # original_text
    /\ original_text' = a
    /\ outcome' = "none"
    /\ UNCHANGED <<chat_history, model_choice, pc, text, instructions,
                   full_prompt, response, polished, invocations, turn_base>>

PolishClickNoCheck ==
    /\ pc = "idle"
    /\ chat_history = <<>>
    /\ invocations < MaxCalls
    /\ text' = original_text
    /\ instructions' = <<>>
    /\ full_prompt' = FullPrompt(original_text, <<>>)
    /\ invocations' = invocations + 1
    /\ turn_base' = chat_history
    /\ pc' = "polishing"
    /\ outcome' = "none"
    /\ UNCHANGED <<chat_history, model_choice, original_text, response,
                   polished>>

(* "Polish Article" is pressed: a blank article is refused with a warning, *)
(* any other article is sent to the model.                                 *)
PolishClick ==
    /\ pc = "idle"
    /\ chat_history = <<>>
    /\ IF strip(original_text) = <<>>
       THEN /\ outcome' = "warned"
            /\ UNCHANGED <<chat_history, model_choice, original_text, pc,
                           text, instructions, full_prompt, response,
                           polished, invocations, turn_base>>
       ELSE /\ invocations < MaxCalls
            /\ text' = original_text
            /\ instructions' = <<>>
            /\ full_prompt' = FullPrompt(original_text, <<>>)
            /\ invocations' = invocations + 1
            /\ turn_base' = chat_history
            /\ pc' = "polishing"
            /\ outcome' = "none"
            /\ UNCHANGED <<chat_history, model_choice, original_text,
                           response, polished>>

(* llm.invoke returns during the initial turn. *)
PolishReturn(r) ==
    /\ pc = "polishing"
    /\ response' = r
    /\ polished' = ResponseText(r)
    /\ chat_history' = AppendExchange(chat_history, original_text,
                                      ResponseText(r))
    /\ pc' = "idle"
    /\ outcome' = "polished"
    /\ UNCHANGED <<model_choice, original_text, text, instructions,
                   full_prompt, invocations, turn_base>>

(* llm.invoke raises during the initial turn; the script run ends. *)
PolishRaise ==
    /\ pc = "polishing"
    /\ pc' = "idle"
    /\ outcome' = "polish_error"
    /\ UNCHANGED <<chat_history, model_choice, original_text, text,
                   instructions, full_prompt, response, polished,
                   invocations, turn_base>>

(* A non-empty follow-up is submitted through the chat input. *)
FollowUp(f) ==
    /\ pc = "idle"
    /\ f # <<>>
    /\ invocations < MaxCalls
    /\ chat_history' = AppendFollowUp(chat_history, f)
    /\ text' = latest_text(chat_history', f)
    /\ instructions' = f
    /\ full_prompt' = FullPrompt(latest_text(chat_history', f), f)
    /\ invocations' = invocations + 1
    /\ turn_base' = chat_history
    /\ pc' = "refining"
    /\ outcome' = "none"
    /\ UNCHANGED <<model_choice, original_text, response, polished>>

(* llm.invoke returns during a refinement turn. *)
RefineReturn(r) ==
    /\ pc = "refining"
    /\ response' = r
    /\ polished' = ResponseText(r)
    /\ chat_history' = AppendPolished(chat_history, ResponseText(r))
    /\ pc' = "idle"
    /\ outcome' = "refined"
    /\ UNCHANGED <<model_choice, original_text, text, instructions,
                   full_prompt, invocations, turn_base>>

RefineRaiseRollback ==
    /\ pc = "refining"
    /\ chat_history' = turn_base
    /\ pc' = "idle"
    /\ outcome' = "refine_error"
    /\ UNCHANGED <<model_choice, original_text, text, instructions,
                   full_prompt, response, polished, invocations, turn_base>>

(* llm.invoke raises during a refinement turn; the script run ends. *)
RefineRaise ==
    /\ pc = "refining"
    /\ pc' = "idle"
    /\ outcome' = "refine_error"
    /\ UNCHANGED <<chat_history, model_choice, original_text, text,
                   instructions, full_prompt, response, polished,
                   invocations, turn_base>>

Next ==
    \/ \E k \in 1..Len(MODEL_CHOICES) : SelectModel(MODEL_CHOICES[k])
    \/ \E a \in Articles : TypeArticle(a)
    \/ PolishClick
    \/ \E r \in Responses : PolishReturn(r)
    \/ PolishRaise
    \/ \E f \in FollowUps : FollowUp(f)
    \/ \E r \in Responses : RefineReturn(r)
    \/ RefineRaise

Spec == Init /\ [][Next]_vars

----------------------------------------------------------------------------
(* The prompt assembler on its own *)

InitAssemble ==
    /\ chat_history = <<>>
    /\ model_choice = MODEL_CHOICES[DefaultModelIndex]
    /\ original_text = <<>>
    /\ pc = "assemble"
    /\ outcome = "none"
    /\ text \in Strings(MaxLen)
    /\ instructions \in Strings(MaxLen)
    /\ full_prompt = <<>>
    /\ response = NoResponse
    /\ polished = <<>>
    /\ invocations = 0
    /\ turn_base = <<>>

AssemblePrompt ==
    /\ pc = "assemble"
    /\ full_prompt' = FullPrompt(text, instructions)
    /\ pc' = "assembled"
    /\ UNCHANGED <<chat_history, model_choice, original_text, outcome, text,
                   instructions, response, polished, invocations, turn_base>>

NextAssemble == AssemblePrompt

SpecAssemble == InitAssemble /\ [][NextAssemble]_vars

----------------------------------------------------------------------------
(* Properties *)

IsPrefix(s, t) == Len(s) <= Len(t) /\ SubSeq(t, 1, Len(s)) = s

IsBlank(s) == \A k \in 1..Len(s) : s[k] \in Whitespace

AssistantIndexes(h) == {k \in 1..Len(h) : h[k].role = "assistant"}

UserIndexes(h) == {k \in 1..Len(h) : h[k].role = "user"}

Returned(r) == IF r.has_content THEN r.content ELSE r.repr

\* C1: the store goes from empty to non-empty only in a step that completes
\* an initial-mode ("Polish Article") turn whose model call succeeded; no
\* follow-up step performs this transition.
C1_OnlyInitialTurnCreatesHistory ==
    [][(chat_history = <<>> /\ chat_history' # <<>>)
          => (pc = "polishing" /\ outcome' = "polished")]_vars

\* C2: whenever no call is in flight, a non-empty store holds the assistant
\* message of at least one successfully completed turn.
C2_NonEmptyOnlyAfterSuccess ==
    (pc = "idle" /\ chat_history # <<>>) => AssistantIndexes(chat_history) # {}

\* C3: a blank (empty or whitespace-only) article submission is rejected with
\* no state change: a warning is only ever shown for a blank article and the
\* step that shows it changes nothing else, and from an empty store with a
\* blank article every step other than a follow-up leaves the store empty and
\* invokes no client.
C3_BlankArticleRejected ==
    [][ /\ (outcome' = "warned" =>
              /\ IsBlank(original_text)
              /\ UNCHANGED <<chat_history, model_choice, original_text, pc,
                             text, instructions, full_prompt, response,
                             polished, invocations, turn_base>>)
        /\ (pc = "idle" /\ chat_history = <<>> /\ IsBlank(original_text)
               /\ original_text' = original_text /\ pc' # "refining" =>
              /\ chat_history' = <<>>
              /\ invocations' = invocations
              /\ pc' = "idle") ]_vars

C3_Witness ==
    /\ outcome = "warned"
    /\ original_text # <<>>
    /\ IsBlank(original_text)
    /\ chat_history = <<>>

\* C4: after a failed model call the store is the pre-turn store in initial
\* mode, and the pre-turn store plus exactly one user message holding the
\* follow-up text in refinement mode.
C4_FailureLeavesDocumentedStore ==
    /\ (outcome = "polish_error" => chat_history = turn_base)
    /\ (outcome = "refine_error" =>
           /\ Len(chat_history) = Len(turn_base) + 1
           /\ SubSeq(chat_history, 1, Len(turn_base)) = turn_base
           /\ chat_history[Len(chat_history)] =
                  [role |-> "user", content |-> instructions])

C4_Witness ==
    /\ outcome = "refine_error"
    /\ AssistantIndexes(turn_base) # {}
    /\ Len(chat_history) = Len(turn_base) + 1

\* C5: the store is append-only: in every step the old store is a prefix of
\* the new one, so nothing is removed, reordered or rewritten and a non-empty
\* store never becomes empty.
C5_AppendOnly ==
    [][IsPrefix(chat_history, chat_history')]_vars

C5_Witness ==
    /\ Len(chat_history) >= 4
    /\ outcome = "refined"

\* C6: a successful initial-mode turn with a non-blank article a makes one
\* client invocation with user payload assemble(a, "") and turns the empty
\* store into <<user a (untrimmed), assistant (the returned text)>>.
C6_InitialTurn ==
    [][ /\ (pc = "idle" /\ pc' = "polishing" =>
              /\ ~IsBlank(original_text)
              /\ invocations' = invocations + 1
              /\ full_prompt' = FullPrompt(original_text, <<>>)
              /\ chat_history = <<>>
              /\ chat_history' = <<>>)
        /\ (pc = "polishing" /\ outcome' = "polished" =>
              /\ invocations' = invocations
              /\ chat_history = <<>>
              /\ chat_history' =
                   << [role |-> "user", content |-> original_text],
                      [role |-> "assistant", content |-> Returned(response')] >>)
      ]_vars

C6_Witness ==
    /\ outcome = "polished"
    /\ original_text = <<32, 97>>
    /\ Len(chat_history) = 2
    /\ invocations = 1

\* C7: while a refinement call is in flight, the instructions are the
\* follow-up text just appended, and the text sent is the content of the last
\* assistant message of the store if there is one, else the follow-up text.
C7_LatestText ==
    pc = "refining" =>
        LET f == chat_history[Len(chat_history)].content
            A == AssistantIndexes(chat_history)
        IN  /\ chat_history[Len(chat_history)].role = "user"
            /\ instructions = f
            /\ IF A # {}
               THEN \E k \in A : /\ \A j \in A : j <= k
                                 /\ text = chat_history[k].content
               ELSE text = f
            /\ full_prompt = FullPrompt(text, f)

C7_Witness ==
    /\ pc = "refining"
    /\ \E j, k \in AssistantIndexes(chat_history) :
           /\ j < k
           /\ chat_history[j].content # chat_history[k].content
    /\ \E k \in 1..(Len(chat_history) - 1) :
           chat_history[k].role = "user" /\ chat_history[k + 1].role = "user"

\* C8: a refinement turn appends the user follow-up and makes its one client
\* invocation in the same step, before the call returns; the step in which the
\* call returns appends only the assistant message, so a successful turn has
\* grown the store by exactly the user follow-up and then the assistant reply.
C8_RefinementOrder ==
    [][ /\ (pc = "idle" /\ pc' = "refining" =>
              /\ invocations' = invocations + 1
              /\ chat_history' =
                   Append(chat_history,
                          [role |-> "user", content |-> instructions']))
        /\ (pc = "refining" /\ outcome' = "refined" =>
              /\ invocations' = invocations
              /\ chat_history =
                   Append(turn_base,
                          [role |-> "user", content |-> instructions])
              /\ chat_history' =
                   Append(chat_history,
                          [role |-> "assistant",
                           content |-> Returned(response')])
              /\ Len(chat_history') = Len(turn_base) + 2) ]_vars

C8_Witness ==
    /\ outcome = "refined"
    /\ Len(turn_base) >= 2
    /\ Len(chat_history) = Len(turn_base) + 2

\* C9: the assembled user message is the base block, then an
\* extra-instructions line holding trim(i) exactly when trim(i) is non-empty,
\* then the text unmodified as the final suffix; blank instructions give the
\* same output as empty ones.
C9_PromptShape ==
    pc = "assembled" =>
        LET n == Len(full_prompt)
            b == Len(base_prompt)
            t == Len(text)
            middle == SubSeq(full_prompt, b + 1, n - t)
        IN  /\ n >= b + t
            /\ SubSeq(full_prompt, 1, b) = base_prompt
            /\ SubSeq(full_prompt, n - t + 1, n) = text
            /\ (IsBlank(instructions) =>
                   middle = <<>> /\ full_prompt = FullPrompt(text, <<>>))
            /\ (~IsBlank(instructions) =>
                   \E lo, hi \in 1..Len(instructions) :
                       /\ lo <= hi
                       /\ instructions[lo] \notin Whitespace
                       /\ instructions[hi] \notin Whitespace
                       /\ IsBlank(SubSeq(instructions, 1, lo - 1))
                       /\ IsBlank(SubSeq(instructions, hi + 1,
                                         Len(instructions)))
                       /\ middle = ExtraLabel
                                     \o SubSeq(instructions, lo, hi)
                                     \o <<10, 10>>)

C9_Witness ==
    /\ pc = "assembled"
    /\ instructions = <<9, 97>>
    /\ text = <<98, 160>>

\* C10: every assistant message is immediately preceded by a user message:
\* a non-empty store starts with a user message, no two assistant messages
\* are adjacent, and assistant messages never outnumber user messages.
C10_AssistantFollowsUser ==
    /\ \A k \in AssistantIndexes(chat_history) :
           k > 1 /\ chat_history[k - 1].role = "user"
    /\ (chat_history # <<>> => chat_history[1].role = "user")
    /\ Cardinality(AssistantIndexes(chat_history))
           <= Cardinality(UserIndexes(chat_history))

C10_Witness ==
    /\ outcome = "refined"
    /\ \E k \in 1..(Len(chat_history) - 1) :
           chat_history[k].role = "user" /\ chat_history[k + 1].role = "user"

====
